---------------------------- MODULE Spec2Model ----------------------------
(***************************************************************************)
(* Life Guide AI (src/life_guide_scripture.py): the per-session state of   *)
(* the Streamlit script and one script run ("refresh cycle") as the        *)
(* next-state action.  Every run executes main() from top to bottom:       *)
(* check_and_show_reminder, the four sidebar sections, then the main form  *)
(* with its three buttons.  The inputs of a run are the wall-clock hour,   *)
(* the widget values the browser sends, the button that triggered the run  *)
(* and the outcomes of the external calls (image fetch, file read, Gemini).*)
(*                                                                         *)
(* Texts the code inspects character by character (faith, concern,         *)
(* guidance) are sequences of one-character strings; None is <<>> and a    *)
(* present optional value v is <<v>>.                                      *)
(***************************************************************************)
EXTENDS Integers, Sequences, FiniteSets, TLC

VARIABLES
    session_state,    \* st.session_state: the keys initialised at lines 74-96 and the keyed form widgets
    page,             \* what the latest run rendered (banner, toasts, history, guidance, messages)
    current_hour,     \* the hour read at line 292 by the latest run, None before the first run
    prev_hour,        \* the hour read by the run before the latest one
    lastFiredHour,    \* the hour of the firing that set reminder_triggered, None once line 311 reset it
    firedSinceReset,  \* the hours that fired since line 311 last reset the flag
    peer_state,       \* st.session_state of a second browser session served by the same process
    active_session    \* the session whose script ran in the latest step: "own", "peer", "none" at the start

vars == <<session_state, page, current_hour, prev_hour, lastFiredHour, firedSinceReset,
          peer_state, active_session>>

None == <<>>
Some(v) == <<v>>

-----------------------------------------------------------------------------
(* Bounds of the model. *)

MaxJournal == 2
MaxNotifications == 4

-----------------------------------------------------------------------------
(* Program constants. *)

Hinduism     == <<"H","i","n","d","u","i","s","m">>
Christianity == <<"C","h","r","i","s","t","i","a","n","i","t","y">>
Islam        == <<"I","s","l","a","m">>
Buddhism     == <<"B","u","d","d","h","i","s","m">>
Judaism      == <<"J","u","d","a","i","s","m">>
Sikhism      == <<"S","i","k","h","i","s","m">>
Spiritualism == <<"S","p","i","r","i","t","u","a","l","i","s","m">>
Taoism       == <<"T","a","o","i","s","m">>
Atheism      == <<"A","t","h","e","i","s","m">>

\* FAITH_BACKGROUNDS.keys(), in the dict's declaration order
FAITH_BACKGROUNDS == <<Hinduism, Christianity, Islam, Buddhism, Judaism,
                       Sikhism, Spiritualism, Taoism, Atheism>>

reminder_hours == {9, 12, 15, 18, 21}

Hours == 0..23

Paths == {"Find Help", "Seek Purpose", "Reflect Within", "Discover Peace"}

BgOptions == {"Default (Dark)", "Scripture Theme", "Upload Image", "Local File Path"}

ConcernLimit == 150
GuidanceLimit == 300

Ellipsis == <<".", ".", ".">>

-----------------------------------------------------------------------------
(* Python string and list primitives the code uses. *)

UpperCase == <<"A","B","C","D","E","F","G","H","I","J","K","L","M",
               "N","O","P","Q","R","S","T","U","V","W","X","Y","Z">>
LowerCase == <<"a","b","c","d","e","f","g","h","i","j","k","l","m",
               "n","o","p","q","r","s","t","u","v","w","x","y","z">>

\* the lower-case letter of every upper-case letter
ToLower ==
    [c \in {UpperCase[i] : i \in 1..Len(UpperCase)} |->
        LowerCase[CHOOSE i \in 1..Len(UpperCase) : UpperCase[i] = c]]

\* str.lower() on one character
LowerChar(c) == IF c \in DOMAIN ToLower THEN ToLower[c] ELSE c

\* str.lower()
Lower(s) == [i \in 1..Len(s) |-> LowerChar(s[i])]

\* a in b, for strings
IsSubstring(a, b) ==
    \E i \in 0..(Len(b) - Len(a)) : SubSeq(b, i + 1, i + Len(a)) = a

\* s[:n]
Slice(s, n) == SubSeq(s, 1, IF Len(s) < n THEN Len(s) ELSE n)

\* reversed(seq): the items from the last index down to the first
RECURSIVE Reversed(_)
Reversed(s) ==
    IF s = <<>> THEN <<>>
    ELSE <<s[Len(s)]>> \o Reversed(SubSeq(s, 1, Len(s) - 1))

-----------------------------------------------------------------------------
(* The state after the initialisation block, and an empty page.  A run is   *)
(* threaded through the functions below as w = [ss |-> session state,      *)
(* page |-> what has been rendered so far].                                 *)

\* st.session_state of a session whose script has not run yet: no key
NoSessionState == [k \in {} |-> None]

\* session_init with plain assignments in place of the "not in" tests
session_init_overwrite(ss) ==
    [ user_data            |-> <<>>,
      user_preferences     |-> [faith |-> <<>>, favorite_path |-> "Find Help"],
      reminder_triggered   |-> FALSE,
      notification_counter |-> 0,
      background_image     |-> None,
      custom_bg_path       |-> None,
      current_bg_type      |-> "default",
      faith_input          |-> <<>>,
      path_input           |-> "Find Help",
      trouble_input        |-> <<>> ]

\* lines 74-96, run at the top of every script run: a key gets its default
\* only when the session does not hold it yet.  The three keyed form widgets
\* (lines 472-491) get their state the same way when they are first created.
session_init(ss) ==
    [ user_data            |-> IF "user_data" \in DOMAIN ss
                               THEN ss.user_data ELSE <<>>,
      user_preferences     |-> IF "user_preferences" \in DOMAIN ss
                               THEN ss.user_preferences
                               ELSE [faith |-> <<>>, favorite_path |-> "Find Help"],
      reminder_triggered   |-> IF "reminder_triggered" \in DOMAIN ss
                               THEN ss.reminder_triggered ELSE FALSE,
      notification_counter |-> IF "notification_counter" \in DOMAIN ss
                               THEN ss.notification_counter ELSE 0,
      background_image     |-> IF "background_image" \in DOMAIN ss
                               THEN ss.background_image ELSE None,
      custom_bg_path       |-> IF "custom_bg_path" \in DOMAIN ss
                               THEN ss.custom_bg_path ELSE None,
      current_bg_type      |-> IF "current_bg_type" \in DOMAIN ss
                               THEN ss.current_bg_type ELSE "default",
      faith_input          |-> IF "faith_input" \in DOMAIN ss
                               THEN ss.faith_input ELSE <<>>,
      path_input           |-> IF "path_input" \in DOMAIN ss
                               THEN ss.path_input ELSE "Find Help",
      trouble_input        |-> IF "trouble_input" \in DOMAIN ss
                               THEN ss.trouble_input ELSE <<>> ]

\* the session state the first pass through lines 74-96 leaves
InitialSessionState == session_init(NoSessionState)

BlankPage ==
    [ button   |-> "none",    \* the button whose click caused this run
      bg_option |-> "Default (Dark)",   \* the radio of line 318 as this run read it
      spinner  |-> None,      \* the faith named by the spinner of line 148, when a fetch was made
      enable_reminders |-> TRUE,        \* the check box of line 429 as this run read it
      reminder |-> FALSE,     \* st.balloons() and the Daily Reminder banner, lines 307-308
      toasts   |-> <<>>,      \* the notification types shown by show_notification, in order
      css      |-> "none",    \* the background style injected by this run: none, faith or file
      notes    |-> {},        \* st.warning / st.info messages of this run
      history  |-> <<>>,      \* the expanders of show_user_history, top to bottom
      prompt   |-> None,      \* the faith, path and concern put into the prompt, lines 548-563
      guidance |-> None,      \* the Divine Whisper block, lines 570-587
      error    |-> FALSE ]    \* st.error at line 607

\* show_notification: counts the notification and shows a toast of its type
show_notification(w, notification_type) ==
    [w EXCEPT !.ss.notification_counter = @ + 1,
              !.page.toasts = Append(@, notification_type)]

\* check_and_show_reminder without the elif of lines 310-311: the flag is never cleared
check_and_show_reminder_no_rearm(w, hour) ==
    IF hour \in reminder_hours /\ ~w.ss.reminder_triggered
    THEN [w EXCEPT !.page.reminder = TRUE, !.ss.reminder_triggered = TRUE]
    ELSE w

\* check_and_show_reminder that reminds only seekers who have not asked for
\* guidance yet: the decision reads the journal
check_and_show_reminder_until_first_entry(w, hour) ==
    IF hour \in reminder_hours /\ ~w.ss.reminder_triggered /\ w.ss.user_data = <<>>
    THEN [w EXCEPT !.page.reminder = TRUE, !.ss.reminder_triggered = TRUE]
    ELSE IF hour \notin reminder_hours
         THEN [w EXCEPT !.ss.reminder_triggered = FALSE]
         ELSE w

\* check_and_show_reminder with datetime.now().hour = hour; which of the
\* five messages random.choice picks is not part of the state
check_and_show_reminder(w, hour) ==
    IF hour \in reminder_hours /\ ~w.ss.reminder_triggered
    THEN [w EXCEPT !.page.reminder = TRUE, !.ss.reminder_triggered = TRUE]
    ELSE IF hour \notin reminder_hours
         THEN [w EXCEPT !.ss.reminder_triggered = FALSE]
         ELSE w

\* set_background_from_file; file_ok: open() and read() of the image succeed.
\* Returns [w, ok].
set_background_from_file(w, file_ok) ==
    IF file_ok
    THEN [w  |-> [w EXCEPT !.page.css = "file", !.ss.current_bg_type = "custom"],
          ok |-> TRUE]
    ELSE [w  |-> [w EXCEPT !.page.notes = @ \cup {"error_loading_background"}],
          ok |-> FALSE]

\* set_background_from_url; fetch: "ok" (status 200), "status" (another
\* status code) or "exception" (requests.get raised).  Returns [w, ok].
set_background_from_url(w, faith_name, fetch) ==
    LET w1 == [w EXCEPT !.page.spinner = Some(faith_name)]
    IN  IF fetch = "ok"
        THEN [w  |-> [w1 EXCEPT !.page.css = "faith", !.ss.current_bg_type = "faith"],
              ok |-> TRUE]
        ELSE IF fetch = "status"
        THEN [w  |-> [w1 EXCEPT !.page.notes = @ \cup {"failed_to_load_from_url"}],
              ok |-> FALSE]
        ELSE [w  |-> [w1 EXCEPT !.page.notes = @ \cup {"error_loading_background"}],
              ok |-> FALSE]

\* show_background_settings; in: the widget values and outcomes of this run
show_background_settings(w0, in) ==
    LET w == [w0 EXCEPT !.page.bg_option = in.bg_option]
    IN
    IF in.bg_option = "Scripture Theme" THEN
        IF in.clicked = "apply_scripture"
        THEN LET r == set_background_from_url(w, in.selected_faith, in.fetch)
             IN  IF r.ok
                 THEN [show_notification(r.w, "success")
                          EXCEPT !.ss.user_preferences.faith = in.selected_faith]
                 ELSE show_notification(r.w, "error")
        ELSE w
    ELSE IF in.bg_option = "Upload Image" THEN
        IF in.uploaded_file # None
        THEN LET temp_path == "temp_bg_" \o in.uploaded_file[1]
                 w1 == [w EXCEPT !.ss.custom_bg_path = Some(temp_path)]
                 r  == set_background_from_file(w1, in.file_ok)
             IN  IF r.ok
                 THEN show_notification(r.w, "success")
                 ELSE [r.w EXCEPT !.ss.custom_bg_path = None]
        ELSE w
    ELSE IF in.bg_option = "Local File Path" THEN
        IF in.local_path # "" /\ in.clicked = "load_local"
        THEN IF in.path_exists
             THEN LET w1 == [w EXCEPT !.ss.custom_bg_path = Some(in.local_path)]
                      r  == set_background_from_file(w1, in.file_ok)
                  IN  IF r.ok THEN show_notification(r.w, "success") ELSE r.w
             ELSE [w EXCEPT !.page.notes = @ \cup {"file_not_found"},
                            !.ss.custom_bg_path = None]
        ELSE w
    ELSE [w EXCEPT !.ss.custom_bg_path = None,
                   !.ss.current_bg_type = "default"]

\* The items show_user_history writes for one entry: the concern cut to 150
\* characters and the guidance cut to 300, each followed by "..." (the
\* underscores of line 396 are Markdown emphasis, not text)
Summary(entry) ==
    [ faith    |-> entry.faith,
      path     |-> entry.path,
      concern  |-> Slice(entry.trouble, ConcernLimit) \o Ellipsis,
      guidance |-> Slice(entry.response, GuidanceLimit) \o Ellipsis ]

\* show_user_history with user_data.reverse() in place of reversed(user_data)
show_user_history_in_place(w) ==
    IF w.ss.user_data # <<>>
    THEN LET view == Reversed(w.ss.user_data)
         IN  [w EXCEPT !.ss.user_data = view,
                       !.page.history = [i \in 1..Len(view) |-> Summary(view[i])]]
    ELSE [w EXCEPT !.page.notes = @ \cup {"journey_begins"}]

\* show_user_history iterating user_data itself, oldest entry first
show_user_history_chronological(w) ==
    IF w.ss.user_data # <<>>
    THEN LET view == w.ss.user_data
         IN  [w EXCEPT !.page.history = [i \in 1..Len(view) |-> Summary(view[i])]]
    ELSE [w EXCEPT !.page.notes = @ \cup {"journey_begins"}]

\* show_user_history: one expander per entry of reversed(user_data)
show_user_history(w) ==
    IF w.ss.user_data # <<>>
    THEN LET view == Reversed(w.ss.user_data)
         IN  [w EXCEPT !.page.history = [i \in 1..Len(view) |-> Summary(view[i])]]
    ELSE [w EXCEPT !.page.notes = @ \cup {"journey_begins"}]

\* show_preferences.  The faith text box has no key and takes its value from
\* the stored preference, so it returns the stored faith unless the user has
\* just typed another one (pref_faith_edit); the path select box keeps the
\* user's last selection, which is the stored one unless just changed.
show_preferences(w, in) ==
    LET faith == IF in.pref_faith_edit = None
                 THEN w.ss.user_preferences.faith ELSE in.pref_faith_edit[1]
        fav   == IF in.favorite_edit = None
                 THEN w.ss.user_preferences.favorite_path ELSE in.favorite_edit[1]
        w1    == [w EXCEPT !.ss.user_preferences.faith = faith,
                           !.ss.user_preferences.favorite_path = fav]
    IN  IF in.remember_prefs THEN show_notification(w1, "info") ELSE w1

\* show_reminder_settings: reads its two widgets and the counter, writes nothing
show_reminder_settings(w, in) ==
    LET w1 == [w EXCEPT !.page.enable_reminders = in.enable_reminders]
    IN  IF in.enable_reminders /\ in.reminder_frequency = "Custom"
        THEN [w1 EXCEPT !.page.notes = @ \cup {"reminder_schedule"}]
        ELSE w1

-----------------------------------------------------------------------------
(* The main form, lines 467-607. *)

\* The for/else of lines 520-527 from key number i on: the number of the
\* first key that contains the typed faith or is contained in it, ignoring
\* case, or 0 when the loop ends without a break
RECURSIVE ResolveFrom_no_break(_, _)
\* ResolveFrom without the break of line 525: the last matching key wins
ResolveFrom_no_break(faith, i) ==
    IF i > Len(FAITH_BACKGROUNDS) THEN 0
    ELSE LET later == ResolveFrom_no_break(faith, i + 1)
         IN  IF later # 0 THEN later
             ELSE IF \/ IsSubstring(Lower(faith), Lower(FAITH_BACKGROUNDS[i]))
                     \/ IsSubstring(Lower(FAITH_BACKGROUNDS[i]), Lower(faith))
                  THEN i
                  ELSE 0

RECURSIVE ResolveFrom(_, _)
ResolveFrom(faith, i) ==
    IF i > Len(FAITH_BACKGROUNDS) THEN 0
    ELSE IF \/ IsSubstring(Lower(faith), Lower(FAITH_BACKGROUNDS[i]))
            \/ IsSubstring(Lower(FAITH_BACKGROUNDS[i]), Lower(faith))
         THEN i
         ELSE ResolveFrom(faith, i + 1)

\* auto_bg that remembers the resolved faith after a successful apply, as
\* line 340 does for the sidebar
auto_bg_remember(w, in) ==
    IF in.clicked = "auto_bg" /\ in.faith # <<>>
    THEN IF ResolveFrom(in.faith, 1) # 0
         THEN LET faith_key == FAITH_BACKGROUNDS[ResolveFrom(in.faith, 1)]
                  r == set_background_from_url(w, faith_key, in.fetch)
              IN  IF r.ok
                  THEN [show_notification(r.w, "success")
                           EXCEPT !.ss.user_preferences.faith = faith_key]
                  ELSE r.w
         ELSE [w EXCEPT !.page.notes = @ \cup {"available_faiths"}]
    ELSE w

\* lines 519-527: the Scripture BG button
auto_bg(w, in) ==
    IF in.clicked = "auto_bg" /\ in.faith # <<>>
    THEN IF ResolveFrom(in.faith, 1) # 0
         THEN LET faith_key == FAITH_BACKGROUNDS[ResolveFrom(in.faith, 1)]
                  r == set_background_from_url(w, faith_key, in.fetch)
              IN  IF r.ok THEN show_notification(r.w, "success") ELSE r.w
         ELSE [w EXCEPT !.page.notes = @ \cup {"available_faiths"}]
    ELSE w

\* lines 529-533: the Clear button.  Streamlit may refuse an assignment to
\* the key of a widget this run has already created; then line 530 raises
\* and the run ends there (widget_write = FALSE).  Otherwise both fields are
\* emptied, the notification is counted and st.rerun() ends the run.
clear_form(w, in) ==
    IF in.widget_write
    THEN show_notification([w EXCEPT !.ss.faith_input = <<>>,
                                     !.ss.trouble_input = <<>>], "info")
    ELSE w

\* lines 589-595: the dict appended to user_data (its timestamp, which no
\* decision reads, is left out)
journal_entry(in, ai_response) ==
    [ faith    |-> in.faith,
      path     |-> in.path,
      trouble  |-> in.trouble,
      response |-> ai_response ]

\* guidance_received that skips an entry the journal already holds
guidance_received_dedup(w, in, ai_response) ==
    LET entry == journal_entry(in, ai_response)
        w1 == [w EXCEPT !.page.guidance = Some(ai_response),
                        !.ss.user_data =
                            IF \E i \in 1..Len(@) : @[i] = entry
                            THEN @ ELSE Append(@, entry)]
    IN  show_notification(w1, "success")

\* lines 568-599: the reply is displayed, recorded and announced
guidance_received(w, in, ai_response) ==
    LET w1 == [w EXCEPT !.page.guidance = Some(ai_response),
                        !.ss.user_data = Append(@, journal_entry(in, ai_response))]
    IN  show_notification(w1, "success")

\* provider_failed that records the request without a reply
provider_failed_partial(w, in) ==
    [show_notification(w, "error")
        EXCEPT !.page.error = TRUE,
               !.ss.user_data = Append(@, journal_entry(in, <<>>))]

\* lines 601-607: the except branch
provider_failed(w, in) ==
    [show_notification(w, "error") EXCEPT !.page.error = TRUE]

\* seek_guidance with lines 544-545 moved above the test of line 536: the
\* faith is remembered before the request is validated
seek_guidance_commit_first(w, in) ==
    LET w1 == IF in.save_prefs
              THEN [w EXCEPT !.ss.user_preferences.faith = in.faith]
              ELSE w
    IN  IF in.faith = <<>> \/ in.trouble = <<>>
        THEN [show_notification(w1, "warning")
                 EXCEPT !.page.notes = @ \cup {"fill_in_all_fields"}]
        ELSE LET w2 == [w1 EXCEPT !.page.prompt =
                           Some([faith |-> in.faith, path |-> in.path, trouble |-> in.trouble])]
             IN  IF in.provider # None
                 THEN guidance_received(w2, in, in.provider[1])
                 ELSE provider_failed(w2, in)

\* lines 535-607: the Seek Guidance button.  in.provider is the text Gemini
\* returns, or None when generate_content or response.text raises.
seek_guidance(w, in) ==
    IF in.faith = <<>> \/ in.trouble = <<>>
    THEN [show_notification(w, "warning")
             EXCEPT !.page.notes = @ \cup {"fill_in_all_fields"}]
    ELSE LET w1 == IF in.save_prefs
                   THEN [w EXCEPT !.ss.user_preferences.faith = in.faith]
                   ELSE w
             w2 == [w1 EXCEPT !.page.prompt =
                        Some([faith |-> in.faith, path |-> in.path, trouble |-> in.trouble])]
         IN  IF in.provider # None
             THEN guidance_received(w2, in, in.provider[1])
             ELSE provider_failed(w2, in)

\* lines 467-607: the three buttons in the order the script tests them
main_form(w, in) ==
    LET w1 == auto_bg(w, in)
    IN  IF in.clicked = "clear_form" THEN clear_form(w1, in)
        ELSE IF in.clicked = "seek_guidance" THEN seek_guidance(w1, in)
        ELSE w1

\* main with the form handled before the sidebar: the sidebar's default
\* branch then runs after the Scripture BG button
main_form_first(w, in) ==
    LET w1 == check_and_show_reminder(w, in.hour)
        w2 == main_form(w1, in)
        w3 == show_background_settings(w2, in)
        w4 == show_preferences(w3, in)
        w5 == show_reminder_settings(w4, in)
    IN  show_user_history(w5)

\* main(): one run of the script with inputs in
main(w, in) ==
    LET w1 == check_and_show_reminder(w, in.hour)
        w2 == show_background_settings(w1, in)
        w3 == show_preferences(w2, in)
        w4 == show_reminder_settings(w3, in)
        w5 == show_user_history(w4)
    IN  main_form(w5, in)

-----------------------------------------------------------------------------
(* The state machine. *)

Init ==
    /\ session_state = InitialSessionState
    /\ page = BlankPage
    /\ current_hour = None
    /\ prev_hour = None
    /\ lastFiredHour = None
    /\ firedSinceReset = {}
    /\ peer_state = InitialSessionState
    /\ active_session = "none"

\* The start of a script run in the session whose state is ss: lines 74-96,
\* with the browser's values of the keyed form widgets in st.session_state
\* and nothing rendered yet.
run_start(ss, in) ==
    [ss   |-> [session_init(ss) EXCEPT !.faith_input = in.faith,
                                       !.path_input = in.path,
                                       !.trouble_input = in.trouble],
     page |-> [BlankPage EXCEPT !.button = in.clicked]]

\* One run of the script in the observed session; w is the session state and
\* the page when main() returns.
Rerun(in) ==
    \E w \in {main(run_start(session_state, in), in)} :
    LET gate == check_and_show_reminder(run_start(session_state, in), in.hour)
        fire == gate.page.reminder
        reset == ~gate.ss.reminder_triggered
    IN  /\ w.ss.notification_counter <= MaxNotifications
        /\ Len(w.ss.user_data) <= MaxJournal
        /\ session_state' = w.ss
        /\ page' = w.page
        /\ current_hour' = Some(in.hour)
        /\ prev_hour' = current_hour
        /\ lastFiredHour' = IF fire THEN Some(in.hour)
                            ELSE IF reset THEN None ELSE lastFiredHour
        /\ firedSinceReset' = IF fire THEN firedSinceReset \cup {in.hour}
                              ELSE IF reset THEN {} ELSE firedSinceReset
        /\ peer_state' = peer_state
        /\ active_session' = "own"

\* PeerRerun with user_data kept in a module-level list that every session
\* of the process appends to
PeerRerun_global_journal(in) ==
    \E w \in {main(run_start(peer_state, in), in)} :
    LET added == SubSeq(w.ss.user_data, Len(peer_state.user_data) + 1,
                        Len(w.ss.user_data))
    IN  /\ w.ss.notification_counter <= MaxNotifications
        /\ Len(w.ss.user_data) <= MaxJournal
        /\ peer_state' = w.ss
        /\ session_state' = [session_state EXCEPT !.user_data = @ \o added]
        /\ active_session' = "peer"
        /\ UNCHANGED <<page, current_hour, prev_hour, lastFiredHour, firedSinceReset>>

\* One run of the script in the second session: Streamlit runs the same
\* script with that session's own st.session_state.
PeerRerun(in) ==
    \E w \in {main(run_start(peer_state, in), in)} :
        /\ w.ss.notification_counter <= MaxNotifications
        /\ Len(w.ss.user_data) <= MaxJournal
        /\ peer_state' = w.ss
        /\ active_session' = "peer"
        /\ UNCHANGED <<session_state, page, current_hour, prev_hour,
                       lastFiredHour, firedSinceReset>>

-----------------------------------------------------------------------------
(* The inputs of a run.  Quiet is a run nobody caused by a click, with every *)
(* widget at the value the script gives it; each family below changes the   *)
(* fields one kind of user action touches.                                  *)

hindu    == <<"h","i","n","d","u">>
letter_a == <<"a">>
ISM      == <<"I","S","M">>
my_taoism  == <<"m","y"," ","T","A","O","I","S","M">>
judaism_or_islam == <<"J","u","d","a","i","s","m"," ","o","r"," ","I","s","l","a","m">>
xyz      == <<"x","y","z">>
lost     == <<"I"," ","f","e","e","l"," ","l","o","s","t">>
be_still == <<"B","e"," ","s","t","i","l","l">>
let_go   == <<"L","e","t"," ","g","o">>

Quiet ==
    [ hour               |-> 10,
      clicked            |-> "none",
      bg_option          |-> "Default (Dark)",
      selected_faith     |-> Hinduism,
      fetch              |-> "ok",
      uploaded_file      |-> None,
      local_path         |-> "",
      path_exists        |-> FALSE,
      file_ok            |-> FALSE,
      pref_faith_edit    |-> None,
      favorite_edit      |-> None,
      remember_prefs     |-> TRUE,
      enable_reminders   |-> TRUE,
      reminder_frequency |-> "Every 3 hours",
      faith              |-> <<>>,
      path               |-> "Find Help",
      trouble            |-> <<>>,
      save_prefs         |-> TRUE,
      provider           |-> None,
      widget_write       |-> TRUE ]

\* a refresh at any hour, with the sidebar check boxes either way
RefreshInputs(hours) ==
    { [Quiet EXCEPT !.hour = h, !.remember_prefs = r] :
        h \in hours, r \in BOOLEAN }

\* an edit of the sidebar preferences
PreferenceInputs ==
    { [Quiet EXCEPT !.pref_faith_edit = f, !.favorite_edit = p] :
        f \in {None, Some(<<>>), Some(hindu)},
        p \in {None, Some("Seek Purpose")} }

\* a click on Seek Guidance
SeekInputs ==
    { [Quiet EXCEPT !.clicked = "seek_guidance", !.hour = 9,
                    !.faith = f, !.trouble = t, !.save_prefs = s,
                    !.remember_prefs = r, !.provider = g] :
        f \in {<<>>, hindu}, t \in {<<>>, lost}, s \in BOOLEAN,
        r \in BOOLEAN, g \in {None, Some(be_still), Some(let_go)} }

\* a click on Clear
ClearInputs ==
    { [Quiet EXCEPT !.clicked = "clear_form", !.faith = hindu,
                    !.trouble = lost, !.widget_write = x] : x \in BOOLEAN }

\* a click on Scripture BG, with the sidebar radio on its first option or
\* left on Scripture Theme
AutoBgInputs ==
    { [Quiet EXCEPT !.clicked = "auto_bg", !.faith = f, !.fetch = x,
                    !.bg_option = o] :
        f \in {<<>>, hindu, xyz}, x \in {"ok", "status"},
        o \in {"Default (Dark)", "Scripture Theme"} }

\* a click on Apply Scripture Background in the sidebar
ApplyScriptureInputs ==
    { [Quiet EXCEPT !.clicked = "apply_scripture", !.bg_option = "Scripture Theme",
                    !.selected_faith = k, !.fetch = x] :
        k \in {Hinduism, Buddhism}, x \in {"ok", "exception"} }

\* a file held by the sidebar's uploader while Upload Image is selected
UploadInputs ==
    { [Quiet EXCEPT !.bg_option = "Upload Image",
                    !.uploaded_file = Some("sunrise.png"), !.file_ok = x] :
        x \in BOOLEAN }

\* a click on Load Local Image
LoadLocalInputs ==
    { [Quiet EXCEPT !.clicked = "load_local", !.bg_option = "Local File Path",
                    !.local_path = "/home/user/bg.jpg",
                    !.path_exists = e, !.file_ok = x] :
        e \in BOOLEAN, x \in BOOLEAN }

\* a refresh while the sidebar radio stays on Scripture Theme
ThemedRefreshInputs ==
    { [Quiet EXCEPT !.bg_option = "Scripture Theme", !.remember_prefs = r] :
        r \in BOOLEAN }

\* a change of the reminder settings in the sidebar
ReminderSettingsInputs ==
    { [Quiet EXCEPT !.hour = h, !.enable_reminders = e, !.reminder_frequency = f,
                    !.remember_prefs = FALSE] :
        h \in {9, 10}, e \in BOOLEAN, f \in {"Daily at noon", "Custom"} }

Refresh ==
    \E in \in RefreshInputs({9, 10}) :
        /\ in.clicked = "none"
        /\ Rerun(in)

EditPreferences ==
    \E in \in PreferenceInputs :
        /\ in.clicked = "none"
        /\ Rerun(in)

SeekGuidance ==
    \E in \in SeekInputs :
        /\ in.clicked = "seek_guidance"
        /\ Rerun(in)

ClearForm ==
    \E in \in ClearInputs :
        /\ in.clicked = "clear_form"
        /\ Rerun(in)

ScriptureBG ==
    \E in \in AutoBgInputs :
        /\ in.clicked = "auto_bg"
        /\ Rerun(in)

ApplyScripture ==
    \E in \in ApplyScriptureInputs :
        /\ in.clicked = "apply_scripture"
        /\ Rerun(in)

UploadImage ==
    \E in \in UploadInputs :
        /\ in.uploaded_file # None
        /\ Rerun(in)

LoadLocalImage ==
    \E in \in LoadLocalInputs :
        /\ in.clicked = "load_local"
        /\ Rerun(in)

ThemedRefresh ==
    \E in \in ThemedRefreshInputs :
        /\ in.bg_option = "Scripture Theme"
        /\ Rerun(in)

EditReminderSettings ==
    \E in \in ReminderSettingsInputs :
        /\ in.reminder_frequency # "Every 3 hours"
        /\ Rerun(in)

Next ==
    \/ Refresh
    \/ EditPreferences
    \/ SeekGuidance
    \/ ClearForm
    \/ ScriptureBG
    \/ ApplyScripture
    \/ UploadImage
    \/ LoadLocalImage
    \/ ThemedRefresh
    \/ EditReminderSettings

Spec == Init /\ [][Next]_vars

\* The reminder gate under every hour of the day, in a session that is only
\* refreshed
Poll ==
    \E in \in RefreshInputs(Hours) :
        /\ in.clicked = "none"
        /\ Rerun(in)

SpecReminder == Init /\ [][Poll]_vars

\* The texts typed into the faith field for the resolution loop: no key
\* matches, one key matches, several keys match, the text contains keys
FaithTexts == {<<>>, hindu, xyz, letter_a, ISM, my_taoism, judaism_or_islam}

\* clicks on Scripture BG with these texts
ResolverInputs ==
    { [Quiet EXCEPT !.clicked = "auto_bg", !.faith = f, !.fetch = x, !.hour = h,
                    !.remember_prefs = r] :
        f \in FaithTexts, x \in {"ok", "status", "exception"}, h \in {9, 10},
        r \in BOOLEAN }

\* The resolution loop of the Scripture BG button over these texts
Resolve ==
    \E in \in ResolverInputs :
        /\ in.clicked = "auto_bg"
        /\ Rerun(in)

SpecResolver == Init /\ [][Resolve]_vars

\* What the users of two sessions do: refresh, ask for guidance, apply a
\* theme from the sidebar, change the favourite path
SessionInputs ==
    { [Quiet EXCEPT !.hour = 9, !.remember_prefs = FALSE],
      [Quiet EXCEPT !.clicked = "seek_guidance", !.faith = hindu, !.trouble = lost,
                    !.provider = Some(be_still), !.remember_prefs = FALSE],
      [Quiet EXCEPT !.clicked = "apply_scripture", !.bg_option = "Scripture Theme",
                    !.selected_faith = Buddhism, !.remember_prefs = FALSE],
      [Quiet EXCEPT !.favorite_edit = Some("Seek Purpose"), !.remember_prefs = FALSE] }

\* a run of the script in the observed session
OwnSession ==
    \E in \in SessionInputs :
        /\ in.hour \in Hours
        /\ Rerun(in)

\* a run of the script in the second session
PeerSession ==
    \E in \in SessionInputs :
        /\ in.hour \in Hours
        /\ PeerRerun(in)

\* Two sessions of the same server process, their runs interleaved
SpecSessions == Init /\ [][OwnSession \/ PeerSession]_vars

-----------------------------------------------------------------------------
(* Properties.  A step that changes vars is one run of the script; the      *)
(* primed variables are the state and the page after it.                    *)

IsPrefix(a, b) == Len(a) <= Len(b) /\ SubSeq(b, 1, Len(a)) = a

Fired(pg) == pg.reminder

\* the entry a successful request records: the submitted form and the reply
SubmittedEntry(ss, pg) ==
    [ faith    |-> ss.faith_input,
      path     |-> ss.path_input,
      trouble  |-> ss.trouble_input,
      response |-> pg.guidance[1] ]

\* C1: at every poll the reminder fires iff the hour is one of 9, 12, 15, 18,
\* 21 and differs from the hour that last fired, and a firing records its hour.
C1_FireRule ==
    [][ current_hour' # None =>
          LET h == current_hour'[1]
          IN  /\ Fired(page') <=> (h \in reminder_hours /\ lastFiredHour # Some(h))
              /\ Fired(page') => lastFiredHour' = Some(h) ]_vars

\* C2: a poll at an hour outside the schedule never fires and leaves the gate
\* reset, the poll at a scheduled hour that follows a reset gate fires, and
\* from a fresh session the polls 9, 9, 10 give fire, no fire, no fire and a
\* reset gate.
C2_Rearm ==
    [][ current_hour' # None =>
          LET h == current_hour'[1]
          IN  /\ h \notin reminder_hours =>
                    /\ ~Fired(page')
                    /\ ~session_state'.reminder_triggered
                    /\ lastFiredHour' = None
              /\ (h \in reminder_hours /\ ~session_state.reminder_triggered) =>
                    Fired(page')
              /\ (h \in reminder_hours /\ current_hour # None
                                       /\ current_hour[1] \notin reminder_hours) =>
                    Fired(page')
              /\ (current_hour = None /\ h = 9) =>
                    Fired(page') /\ lastFiredHour' = Some(9)
              /\ (prev_hour = None /\ current_hour = Some(9) /\ prev_hour' = Some(9)
                                   /\ h = 9) =>
                    ~Fired(page') /\ lastFiredHour' = Some(9)
              /\ (prev_hour = Some(9) /\ current_hour = Some(9) /\ h = 10) =>
                    ~Fired(page') /\ lastFiredHour' = None ]_vars

\* a poll at 10 right after a poll at 9 that left the flag set: the gate is reset
C2_Witness ==
    /\ prev_hour = Some(9)
    /\ current_hour = Some(10)
    /\ ~session_state.reminder_triggered
    /\ ~Fired(page)
    /\ lastFiredHour = None

\* C3: no hour fires twice without a poll outside the schedule in between,
\* and of consecutive polls that see the same scheduled hour exactly the
\* first one fires.
C3_OncePerHour ==
    [][ current_hour' # None =>
          LET h == current_hour'[1]
          IN  /\ Fired(page') => h \notin firedSinceReset
              /\ (h \in reminder_hours /\ current_hour # Some(h)) => Fired(page')
              /\ (h \in reminder_hours /\ current_hour = Some(h)) => ~Fired(page') ]_vars

\* C4: the journal only grows at its end: after any run the journal before
\* the run is a prefix of the journal after it.
C4_AppendOnly ==
    [][ IsPrefix(session_state.user_data, session_state'.user_data) ]_vars

\* two entries are stored and a later run has displayed both
C4_Witness ==
    /\ Len(session_state.user_data) >= 2
    /\ Len(page.history) >= 2
    /\ session_state.user_data[1] # session_state.user_data[2]

\* C5: a run in which the provider returned text T for a submitted request
\* appends exactly the entry {submitted faith, path, concern, T} at the end
\* of the journal, also when the same entry is already there.
C5_SuccessAppends ==
    [][ page'.guidance # None =>
          /\ session_state'.faith_input # <<>>
          /\ session_state'.trouble_input # <<>>
          /\ page'.prompt = Some([ faith   |-> session_state'.faith_input,
                                   path    |-> session_state'.path_input,
                                   trouble |-> session_state'.trouble_input ])
          /\ session_state'.user_data =
                Append(session_state.user_data, SubmittedEntry(session_state', page'))
          /\ Len(session_state'.user_data) = Len(session_state.user_data) + 1 ]_vars

\* the identical request was answered twice with the same text: two equal entries
C5_Witness ==
    /\ page.guidance # None
    /\ Len(session_state.user_data) = 2
    /\ session_state.user_data[1] = session_state.user_data[2]
    /\ session_state.user_data[2] = SubmittedEntry(session_state, page)

\* C6: a run in which the provider call failed leaves the journal as it was,
\* and a successful request right after it appends its entry as usual.
C6_FailureKeepsJournal ==
    [][ /\ page'.error =>
              /\ page'.guidance = None
              /\ session_state'.user_data = session_state.user_data
        /\ (page.error /\ page'.guidance # None) =>
              session_state'.user_data =
                 Append(session_state.user_data, SubmittedEntry(session_state', page')) ]_vars

\* the provider failed for a valid request while the journal held an entry
C6_Witness ==
    /\ page.error
    /\ page.prompt # None
    /\ Len(session_state.user_data) = 1

\* C7: a run in which the provider call failed leaves the Preferences as they
\* were before the request, whatever the remember-my-faith box says.
C7_FailureKeepsPreferences ==
    [][ page'.error =>
          session_state'.user_preferences = session_state.user_preferences ]_vars

\* C8: handling one guidance request, answered or failed, raises the
\* notification counter by exactly 1.
C8_OneNotificationPerRequest ==
    [][ (page'.guidance # None \/ page'.error) =>
          session_state'.notification_counter =
             session_state.notification_counter + 1 ]_vars

\* the snippet the spec asks for: the text itself up to the limit, its first
\* limit characters and a marker beyond
Snippet(text, limit) ==
    IF Len(text) <= limit THEN text ELSE SubSeq(text, 1, limit) \o Ellipsis

\* C9: every displayed entry shows the concern unmodified when it has at most
\* 150 characters and its first 150 characters plus a marker otherwise,
\* likewise the guidance with 300; the stored entry keeps the full text.
C9_Truncation ==
    \A i \in 1..Len(page.history) :
        LET n == Len(page.history)
            entry == session_state.user_data[n + 1 - i]
        IN  /\ page.history[i].concern = Snippet(entry.trouble, ConcernLimit)
            /\ page.history[i].guidance = Snippet(entry.response, GuidanceLimit)

\* C10: every run displays the journal it finds in exactly the reverse of
\* the stored order, and a run that records no new entry leaves the stored
\* journal as it was.
C10_MostRecentFirst ==
    [][ /\ current_hour' # None =>
              LET n == Len(session_state.user_data)
              IN  /\ Len(page'.history) = n
                  /\ \A i \in 1..n :
                        page'.history[i] = Summary(session_state.user_data[n + 1 - i])
        /\ page'.guidance = None =>
              session_state'.user_data = session_state.user_data ]_vars

\* two different entries are displayed, the later one first
C10_Witness ==
    /\ Len(page.history) = 2
    /\ page.history[1] # page.history[2]
    /\ page.history[1] = Summary(session_state.user_data[2])

\* the claim's rule: the typed text contains the key or the key contains the
\* typed text, both lower-cased
Matches(text, faith_key) ==
    \/ IsSubstring(Lower(faith_key), Lower(text))
    \/ IsSubstring(Lower(text), Lower(faith_key))

\* the number of the first key in declaration order that matches, 0 for none
FirstMatch(text) ==
    IF \E i \in 1..Len(FAITH_BACKGROUNDS) : Matches(text, FAITH_BACKGROUNDS[i])
    THEN CHOOSE i \in 1..Len(FAITH_BACKGROUNDS) :
            /\ Matches(text, FAITH_BACKGROUNDS[i])
            /\ \A j \in 1..(i - 1) : ~Matches(text, FAITH_BACKGROUNDS[j])
    ELSE 0

\* what a click on Scripture BG with the typed text must load under the rule
RuleOutcome(text) ==
    IF FirstMatch(text) = 0 THEN None ELSE Some(FAITH_BACKGROUNDS[FirstMatch(text)])

\* C11 as stated: for every text typed into the faith field, a click on
\* Scripture BG loads the theme of the first key in declaration order that
\* contains the text or is contained in it (ignoring case) and none when no
\* key matches; a repeated click with the same text loads the same theme;
\* "hindu" loads Hinduism.
C11_ResolveEveryText ==
    [][ page'.button = "auto_bg" =>
          LET text == session_state'.faith_input
          IN  /\ page'.spinner = RuleOutcome(text)
              /\ (page.button = "auto_bg" /\ session_state.faith_input = text) =>
                    page'.spinner = page.spinner
              /\ text = hindu => page'.spinner = Some(Hinduism) ]_vars

\* C11 amended: the same for every non-empty text; with an empty faith field
\* the click resolves nothing (line 519).
C11_ResolveNonEmptyText ==
    [][ (page'.button = "auto_bg" /\ session_state'.faith_input # <<>>) =>
          LET text == session_state'.faith_input
          IN  /\ page'.spinner = RuleOutcome(text)
              /\ (page.button = "auto_bg" /\ session_state.faith_input = text) =>
                    page'.spinner = page.spinner
              /\ text = hindu => page'.spinner = Some(Hinduism) ]_vars

\* "Judaism or Islam" contains two keys: the earlier declared Islam is loaded
C11_Witness ==
    /\ page.button = "auto_bg"
    /\ session_state.faith_input = judaism_or_islam
    /\ Matches(judaism_or_islam, Judaism)
    /\ page.spinner = Some(Islam)

\* the background mode: the mode tag and the custom file path
BackgroundMode(ss) == <<ss.current_bg_type, ss.custom_bg_path>>

\* C12: a run caused by a click on Scripture BG whose faith text matches no
\* key shows the list of valid faith names and leaves the background mode,
\* the Preferences and the journal as they were before the click.
C12_NoMatchKeepsState ==
    [][ ( /\ page'.button = "auto_bg"
          /\ session_state'.faith_input # <<>>
          /\ RuleOutcome(session_state'.faith_input) = None ) =>
          /\ "available_faiths" \in page'.notes
          /\ BackgroundMode(session_state') = BackgroundMode(session_state)
          /\ session_state'.user_preferences = session_state.user_preferences
          /\ session_state'.user_data = session_state.user_data ]_vars

\* a run that asked for a theme image and did not get it
FetchFailed(pg) == pg.spinner # None /\ pg.css # "faith"

\* C13: a run in which the image of a resolved theme could not be fetched,
\* whether the theme came from the sidebar's selection or from the faith
\* text, ends with the background mode it started with.
C13_FetchErrorKeepsMode ==
    [][ FetchFailed(page') =>
          BackgroundMode(session_state') = BackgroundMode(session_state) ]_vars

\* the same for the sidebar's Apply Scripture Background alone
C13_SidebarFetchErrorKeepsMode ==
    [][ (FetchFailed(page') /\ page'.button = "apply_scripture") =>
          BackgroundMode(session_state') = BackgroundMode(session_state) ]_vars

\* a run that tried to apply a background and did not succeed: the theme
\* image was not fetched, or the image file could not be loaded
ApplyFailed(pg) ==
    \/ FetchFailed(pg)
    \/ "error_loading_background" \in pg.notes /\ pg.css = "none"

\* C14: a run whose apply step did not succeed leaves the mode tag and the
\* custom file path as they were; in particular a run that fails while
\* loading a custom file.
C14_CommitAfterSuccess ==
    [][ ApplyFailed(page') =>
          BackgroundMode(session_state') = BackgroundMode(session_state) ]_vars

\* C15: in every state a custom file path is recorded exactly when the mode
\* is custom, so no path of an earlier custom mode remains under the faith
\* or the default mode.
C15_ModeMatchesPayload ==
    (session_state.custom_bg_path # None) <=> (session_state.current_bg_type = "custom")

C17_FreshSessionState ==
    /\ active_session = "none" =>
          /\ Len(session_state.user_data) = 0
          /\ session_state.user_preferences = [faith |-> <<>>, favorite_path |-> "Find Help"]
          /\ ~session_state.reminder_triggered
          /\ lastFiredHour = None
          /\ session_state.notification_counter = 0
          /\ BackgroundMode(session_state) = <<"default", None>>
    /\ session_init(session_state) = session_state

\* a refresh found a journal entry, a remembered faith, counted
\* notifications and a faith theme, and kept them
C17_Witness ==
    /\ page.button = "none"
    /\ page.bg_option = "Scripture Theme"
    /\ Len(session_state.user_data) = 1
    /\ Len(page.history) = 1
    /\ session_state.user_preferences.faith # <<>>
    /\ session_state.notification_counter > 0
    /\ session_state.current_bg_type = "faith"

\* the fire decision and the next flag as a table of the hour and the flag
GateFires(hour, triggered) == hour \in reminder_hours /\ ~triggered
GateNext(hour, triggered) == hour \in reminder_hours

\* C18: in every run the fire decision and the flag after the run are given
\* by one table of the hour and the flag before the run, whatever the
\* journal, the preferences, the background mode, the notification counter
\* and the two reminder settings of the sidebar are; so two sessions that
\* agree on hour and flag decide alike.
C18_GateDeterminism ==
    [][ (active_session' = "own" /\ current_hour' # None) =>
          LET hour == current_hour'[1]
              triggered == session_state.reminder_triggered
          IN  /\ Fired(page') = GateFires(hour, triggered)
              /\ session_state'.reminder_triggered = GateNext(hour, triggered) ]_vars

\* the reminder fired in a run that had session reminders switched off, in a
\* session with a journal entry and counted notifications
C18_Witness ==
    /\ Fired(page)
    /\ ~page.enable_reminders
    /\ session_state.user_data # <<>>
    /\ session_state.notification_counter > 0

\* the number of notifications of one type among the toasts of a run
CountToasts(toasts, notification_type) ==
    Cardinality({i \in 1..Len(toasts) : toasts[i] = notification_type})

\* C19: a run caused by Seek Guidance with an empty faith or an empty concern
\* builds no prompt and gets no reply or provider error, leaves the journal
\* and the Preferences as they were, and shows exactly one warning
\* notification, which the counter counts like every notification of the run.
C19_InvalidRequest ==
    [][ ( /\ page'.button = "seek_guidance"
          /\ session_state'.faith_input = <<>> \/ session_state'.trouble_input = <<>> ) =>
          /\ page'.prompt = None
          /\ page'.guidance = None
          /\ ~page'.error
          /\ session_state'.user_data = session_state.user_data
          /\ session_state'.user_preferences = session_state.user_preferences
          /\ "fill_in_all_fields" \in page'.notes
          /\ CountToasts(page'.toasts, "warning") = 1
          /\ session_state'.notification_counter =
                session_state.notification_counter + Len(page'.toasts) ]_vars

\* a request with a faith but no concern was refused and the typed faith was
\* not remembered
C19_Witness ==
    /\ page.button = "seek_guidance"
    /\ session_state.faith_input = hindu
    /\ session_state.trouble_input = <<>>
    /\ session_state.user_preferences.faith = <<>>
    /\ CountToasts(page.toasts, "warning") = 1
    /\ page.prompt = None

\* C20: every run that reads the sidebar radio as Default ends with no custom
\* path and with the default mode, unless the Scripture BG button of the same
\* run applied a theme after the sidebar was handled, in which case the mode
\* is faith; so a theme applied by Scripture BG is gone after the next such
\* run that applies nothing.
C20_DefaultResetsEachCycle ==
    [][ (active_session' = "own" /\ page'.bg_option = "Default (Dark)") =>
          /\ session_state'.custom_bg_path = None
          /\ session_state'.current_bg_type =
                IF page'.css = "faith" THEN "faith" ELSE "default"
          /\ (session_state.current_bg_type = "faith" /\ page'.css = "none") =>
                session_state'.current_bg_type = "default" ]_vars

\* the radio is on Default and the theme applied by Scripture BG in this run
\* is the active mode
C20_Witness ==
    /\ page.bg_option = "Default (Dark)"
    /\ page.button = "auto_bg"
    /\ page.css = "faith"
    /\ session_state.current_bg_type = "faith"
    /\ session_state.custom_bg_path = None

\* C21: a run that applies a theme from the sidebar's faith list ends with the
\* selected key as the remembered faith when the image was fetched and with
\* the Preferences it started with when it was not; a run that applies a
\* theme resolved from the faith text leaves the Preferences as they were
\* either way; neither changes the favourite path or the journal.
C21_ThemeAndRememberedFaith ==
    [][ /\ (page'.button = "apply_scripture" /\ page'.spinner # None) =>
              /\ page'.css = "faith" =>
                    session_state'.user_preferences.faith = page'.spinner[1]
              /\ page'.css # "faith" =>
                    session_state'.user_preferences = session_state.user_preferences
              /\ session_state'.user_preferences.favorite_path =
                    session_state.user_preferences.favorite_path
              /\ session_state'.user_data = session_state.user_data
        /\ (page'.button = "auto_bg" /\ page'.spinner # None) =>
              /\ session_state'.user_preferences = session_state.user_preferences
              /\ session_state'.user_data = session_state.user_data ]_vars

\* Buddhism was applied from the sidebar and is now the remembered faith, in
\* a session that had asked for guidance as "hindu"
C21_Witness ==
    /\ page.button = "apply_scripture"
    /\ page.css = "faith"
    /\ page.spinner = Some(Buddhism)
    /\ session_state.user_preferences.faith = Buddhism
    /\ Len(session_state.user_data) = 1
    /\ session_state.user_data[1].faith = hindu

=============================================================================
